---- MODULE Spec2Model ----
(***************************************************************************)
(* byte-io: read/write numbers to/from byte slices, big- and little-endian *)
(* (src/src/lib.rs).                                                       *)
(*                                                                         *)
(* A fixed-width machine integer is modelled by its bit pattern, held as a *)
(* sequence of 8-bit limbs, least-significant limb first (limb k has       *)
(* weight 256^(k-1)).  The Rust operators the code uses (as, <<, >>, |)    *)
(* are modelled on that representation, so that no intermediate value      *)
(* exceeds the range of the model checker's integers even for 64-bit       *)
(* types.  A bool is a BOOLEAN; an f32/f64 is the bit pattern of the same  *)
(* width (the code transmutes).  Slices are sequences of bytes; Rust index *)
(* k is TLA+ index k+1.                                                    *)
(***************************************************************************)
EXTENDS Integers, Sequences, FiniteSets, TLC

\* ------------------------------------------------------------------------
\* Bounds of the model
\* ------------------------------------------------------------------------

\* longest window a session starts with
MaxWin == 9
\* windows up to this length range over every combination of ByteVals;
\* longer ones over a few patterns of distinct bytes
MaxDense == 4
\* most elements in a Vec a session starts with
MaxElems == 3
\* most calls in one session
MaxCalls == 2
\* prior content of every byte of an output window
Fill == 170
\* length of the buffer of a framing session and most writes into it
BufLen == 9
MaxWrites == 3

ByteVals == {0, 1, 255}
PatternBases == {16, 240}

\* ------------------------------------------------------------------------
\* Scalar types
\* ------------------------------------------------------------------------

IntTypes == {"i8", "u8", "i16", "u16", "i32", "u32", "i64", "u64"}
FloatTypes == {"f32", "f64"}
Types == IntTypes \cup FloatTypes \cup {"bool"}

size_of(T) ==
  CASE T \in {"i8", "u8", "bool"} -> 1
    [] T \in {"i16", "u16"} -> 2
    [] T \in {"i32", "u32", "f32"} -> 4
    [] T \in {"i64", "u64", "f64"} -> 8

\* ------------------------------------------------------------------------
\* Machine integers as limb sequences
\* ------------------------------------------------------------------------

Pow2(n) == 2 ^ n

\* `b as uN` / `b as iN` for b : u8 -- zero extension to w limbs
Cast(b, w) == [k \in 1..w |-> IF k = 1 THEN b ELSE 0]

\* `x as u8` -- truncation to the low limb
AsU8(x) == x[1]

\* `x << n`, bits shifted out at the top are lost
Shl(x, n) ==
  LET w == Len(x)
      q == n \div 8
      r == n % 8
      L(j) == IF j >= 1 /\ j <= w THEN x[j] ELSE 0
  IN  IF r = 0 THEN [k \in 1..w |-> L(k - q)]
      ELSE [k \in 1..w |-> ((L(k - q) * Pow2(r)) % 256) + (L(k - q - 1) \div Pow2(8 - r))]

\* `x >> n`, arithmetic when the type is signed, logical otherwise
Shr(x, n, signed) ==
  LET w == Len(x)
      q == n \div 8
      r == n % 8
      fill == IF signed /\ x[w] >= 128 THEN 255 ELSE 0
      L(j) == IF j <= w THEN x[j] ELSE fill
  IN  IF r = 0 THEN [k \in 1..w |-> L(k + q)]
      ELSE [k \in 1..w |-> (L(k + q) \div Pow2(r)) + ((L(k + q + 1) * Pow2(8 - r)) % 256)]

RECURSIVE OrBits(_, _, _)
OrBits(a, b, n) ==
  IF n = 0 THEN 0
  ELSE IF a = 0 THEN b
  ELSE IF b = 0 THEN a
  ELSE (IF a % 2 = 1 \/ b % 2 = 1 THEN 1 ELSE 0) + 2 * OrBits(a \div 2, b \div 2, n - 1)

\* `x | y`
BitOr(x, y) == [k \in 1..Len(x) |-> OrBits(x[k], y[k], 8)]

\* t1 | t2 | ... | tn, left to right
RECURSIVE OrAll(_)
OrAll(ts) ==
  IF Len(ts) = 1 THEN ts[1]
  ELSE BitOr(OrAll(SubSeq(ts, 1, Len(ts) - 1)), ts[Len(ts)])

\* transmute between a float and the unsigned integer of its width
transmute(x) == x

\* ------------------------------------------------------------------------
\* Slices, indexing and panics
\* ------------------------------------------------------------------------

\* i[k]
At(i, k) == i[k + 1]

\* every index of ks is within the slice; indexing out of it panics
InBounds(i, ks) == \A k \in ks : k < Len(i)

\* outcome of a read: a value, or a panic
Ret(x) == [ok |-> TRUE, v |-> x]
Fault == [ok |-> FALSE, v |-> <<>>]

\* outcome of a write: the slice as the call left it, and whether it returned
Begin(a) == [ok |-> TRUE, mem |-> a]

\* a[k] = b, after the statements before it
Store(s, k, b) ==
  IF ~s.ok THEN s
  ELSE IF k >= Len(s.mem) THEN [ok |-> FALSE, mem |-> s.mem]
  ELSE [ok |-> TRUE, mem |-> [s.mem EXCEPT ![k + 1] = b]]

\* the assignments of st, in order
RECURSIVE Stores(_, _)
Stores(s, st) ==
  IF st = <<>> THEN s
  ELSE Stores(Store(s, st[1][1], st[1][2]), Tail(st))

\* ------------------------------------------------------------------------
\* impl Readable / Writeable for the scalar types
\* ------------------------------------------------------------------------

i8_to_u8_be(v, a) == Stores(Begin(a), << <<0, AsU8(v)>> >>)
i8_to_u8_le(v, a) == Stores(Begin(a), << <<0, AsU8(v)>> >>)
i8_from_u8_be(i) == IF ~InBounds(i, {0}) THEN Fault ELSE Ret(Cast(At(i, 0), 1))
i8_from_u8_le(i) == IF ~InBounds(i, {0}) THEN Fault ELSE Ret(Cast(At(i, 0), 1))

u8_from_u8_be(a) == IF ~InBounds(a, {0}) THEN Fault ELSE Ret(<<At(a, 0)>>)
u8_from_u8_le(a) == IF ~InBounds(a, {0}) THEN Fault ELSE Ret(<<At(a, 0)>>)
u8_to_u8_be(v, a) == Stores(Begin(a), << <<0, v[1]>> >>)
u8_to_u8_le(v, a) == Stores(Begin(a), << <<0, v[1]>> >>)

i16_from_u8_be(i) ==
  IF ~InBounds(i, {0, 1}) THEN Fault
  ELSE Ret(OrAll(<<Shl(Cast(At(i, 0), 2), 8), Cast(At(i, 1), 2)>>))
i16_from_u8_le(i) ==
  IF ~InBounds(i, {0, 1}) THEN Fault
  ELSE Ret(OrAll(<<Shl(Cast(At(i, 1), 2), 8), Cast(At(i, 0), 2)>>))
i16_to_u8_be(v, a) ==
  Stores(Begin(a), << <<0, AsU8(Shr(v, 8, TRUE))>>, <<1, AsU8(v)>> >>)
\* mutant: the two indices exchanged
i16_to_u8_le_swapped(v, a) ==
  Stores(Begin(a), << <<0, AsU8(Shr(v, 8, TRUE))>>, <<1, AsU8(v)>> >>)
i16_to_u8_le(v, a) ==
  Stores(Begin(a), << <<1, AsU8(Shr(v, 8, TRUE))>>, <<0, AsU8(v)>> >>)

\* mutant: i[0] read twice, i[1] never
u16_from_u8_be_same_index(i) ==
  IF ~InBounds(i, {0}) THEN Fault
  ELSE Ret(OrAll(<<Shl(Cast(At(i, 0), 2), 8), Cast(At(i, 0), 2)>>))
u16_from_u8_be(i) ==
  IF ~InBounds(i, {0, 1}) THEN Fault
  ELSE Ret(OrAll(<<Shl(Cast(At(i, 0), 2), 8), Cast(At(i, 1), 2)>>))
u16_from_u8_le(i) ==
  IF ~InBounds(i, {0, 1}) THEN Fault
  ELSE Ret(OrAll(<<Shl(Cast(At(i, 1), 2), 8), Cast(At(i, 0), 2)>>))
u16_to_u8_be(v, a) ==
  Stores(Begin(a), << <<0, AsU8(Shr(v, 8, FALSE))>>, <<1, AsU8(v)>> >>)
u16_to_u8_le(v, a) ==
  Stores(Begin(a), << <<1, AsU8(Shr(v, 8, FALSE))>>, <<0, AsU8(v)>> >>)

\* mutant: the shifts of i[0] and i[1] exchanged
i32_from_u8_be_shifts(i) ==
  IF ~InBounds(i, 0..3) THEN Fault
  ELSE Ret(OrAll(<<Shl(Cast(At(i, 0), 4), 16), Shl(Cast(At(i, 1), 4), 24),
                   Shl(Cast(At(i, 2), 4), 8), Cast(At(i, 3), 4)>>))
i32_from_u8_be(i) ==
  IF ~InBounds(i, 0..3) THEN Fault
  ELSE Ret(OrAll(<<Shl(Cast(At(i, 0), 4), 24), Shl(Cast(At(i, 1), 4), 16),
                   Shl(Cast(At(i, 2), 4), 8), Cast(At(i, 3), 4)>>))
i32_from_u8_le(i) ==
  IF ~InBounds(i, 0..3) THEN Fault
  ELSE Ret(OrAll(<<Shl(Cast(At(i, 3), 4), 24), Shl(Cast(At(i, 2), 4), 16),
                   Shl(Cast(At(i, 1), 4), 8), Cast(At(i, 0), 4)>>))
i32_to_u8_be(v, a) ==
  Stores(Begin(a), << <<0, AsU8(Shr(v, 24, TRUE))>>, <<1, AsU8(Shr(v, 16, TRUE))>>,
                      <<2, AsU8(Shr(v, 8, TRUE))>>, <<3, AsU8(v)>> >>)
i32_to_u8_le(v, a) ==
  Stores(Begin(a), << <<3, AsU8(Shr(v, 24, TRUE))>>, <<2, AsU8(Shr(v, 16, TRUE))>>,
                      <<1, AsU8(Shr(v, 8, TRUE))>>, <<0, AsU8(v)>> >>)

u32_from_u8_be(i) ==
  IF ~InBounds(i, 0..3) THEN Fault
  ELSE Ret(OrAll(<<Shl(Cast(At(i, 0), 4), 24), Shl(Cast(At(i, 1), 4), 16),
                   Shl(Cast(At(i, 2), 4), 8), Cast(At(i, 3), 4)>>))
u32_from_u8_le(i) ==
  IF ~InBounds(i, 0..3) THEN Fault
  ELSE Ret(OrAll(<<Shl(Cast(At(i, 3), 4), 24), Shl(Cast(At(i, 2), 4), 16),
                   Shl(Cast(At(i, 1), 4), 8), Cast(At(i, 0), 4)>>))
\* mutant: the rest of the window is zeroed
u32_to_u8_be_zero_pad(v, a) ==
  LET s == Stores(Begin(a), << <<0, AsU8(Shr(v, 24, FALSE))>>, <<1, AsU8(Shr(v, 16, FALSE))>>,
                               <<2, AsU8(Shr(v, 8, FALSE))>>, <<3, AsU8(v)>> >>)
  IN  IF ~s.ok THEN s
      ELSE [ok |-> TRUE, mem |-> [p \in 1..Len(a) |-> IF p <= 4 THEN s.mem[p] ELSE 0]]
u32_to_u8_be(v, a) ==
  Stores(Begin(a), << <<0, AsU8(Shr(v, 24, FALSE))>>, <<1, AsU8(Shr(v, 16, FALSE))>>,
                      <<2, AsU8(Shr(v, 8, FALSE))>>, <<3, AsU8(v)>> >>)
u32_to_u8_le(v, a) ==
  Stores(Begin(a), << <<3, AsU8(Shr(v, 24, FALSE))>>, <<2, AsU8(Shr(v, 16, FALSE))>>,
                      <<1, AsU8(Shr(v, 8, FALSE))>>, <<0, AsU8(v)>> >>)

i64_from_u8_be(i) ==
  IF ~InBounds(i, 0..7) THEN Fault
  ELSE Ret(OrAll(<<Shl(Cast(At(i, 0), 8), 56), Shl(Cast(At(i, 1), 8), 48),
                   Shl(Cast(At(i, 2), 8), 40), Shl(Cast(At(i, 3), 8), 32),
                   Shl(Cast(At(i, 4), 8), 24), Shl(Cast(At(i, 5), 8), 16),
                   Shl(Cast(At(i, 6), 8), 8), Cast(At(i, 7), 8)>>))
i64_from_u8_le(i) ==
  IF ~InBounds(i, 0..7) THEN Fault
  ELSE Ret(OrAll(<<Shl(Cast(At(i, 7), 8), 56), Shl(Cast(At(i, 6), 8), 48),
                   Shl(Cast(At(i, 5), 8), 40), Shl(Cast(At(i, 4), 8), 32),
                   Shl(Cast(At(i, 3), 8), 24), Shl(Cast(At(i, 2), 8), 16),
                   Shl(Cast(At(i, 1), 8), 8), Cast(At(i, 0), 8)>>))
i64_to_u8_be(v, a) ==
  Stores(Begin(a), << <<0, AsU8(Shr(v, 56, TRUE))>>, <<1, AsU8(Shr(v, 48, TRUE))>>,
                      <<2, AsU8(Shr(v, 40, TRUE))>>, <<3, AsU8(Shr(v, 32, TRUE))>>,
                      <<4, AsU8(Shr(v, 24, TRUE))>>, <<5, AsU8(Shr(v, 16, TRUE))>>,
                      <<6, AsU8(Shr(v, 8, TRUE))>>, <<7, AsU8(v)>> >>)
i64_to_u8_le(v, a) ==
  Stores(Begin(a), << <<7, AsU8(Shr(v, 56, TRUE))>>, <<6, AsU8(Shr(v, 48, TRUE))>>,
                      <<5, AsU8(Shr(v, 40, TRUE))>>, <<4, AsU8(Shr(v, 32, TRUE))>>,
                      <<3, AsU8(Shr(v, 24, TRUE))>>, <<2, AsU8(Shr(v, 16, TRUE))>>,
                      <<1, AsU8(Shr(v, 8, TRUE))>>, <<0, AsU8(v)>> >>)

u64_from_u8_be(i) ==
  IF ~InBounds(i, 0..7) THEN Fault
  ELSE Ret(OrAll(<<Shl(Cast(At(i, 0), 8), 56), Shl(Cast(At(i, 1), 8), 48),
                   Shl(Cast(At(i, 2), 8), 40), Shl(Cast(At(i, 3), 8), 32),
                   Shl(Cast(At(i, 4), 8), 24), Shl(Cast(At(i, 5), 8), 16),
                   Shl(Cast(At(i, 6), 8), 8), Cast(At(i, 7), 8)>>))
u64_from_u8_le(i) ==
  IF ~InBounds(i, 0..7) THEN Fault
  ELSE Ret(OrAll(<<Shl(Cast(At(i, 7), 8), 56), Shl(Cast(At(i, 6), 8), 48),
                   Shl(Cast(At(i, 5), 8), 40), Shl(Cast(At(i, 4), 8), 32),
                   Shl(Cast(At(i, 3), 8), 24), Shl(Cast(At(i, 2), 8), 16),
                   Shl(Cast(At(i, 1), 8), 8), Cast(At(i, 0), 8)>>))
u64_to_u8_be(v, a) ==
  Stores(Begin(a), << <<0, AsU8(Shr(v, 56, FALSE))>>, <<1, AsU8(Shr(v, 48, FALSE))>>,
                      <<2, AsU8(Shr(v, 40, FALSE))>>, <<3, AsU8(Shr(v, 32, FALSE))>>,
                      <<4, AsU8(Shr(v, 24, FALSE))>>, <<5, AsU8(Shr(v, 16, FALSE))>>,
                      <<6, AsU8(Shr(v, 8, FALSE))>>, <<7, AsU8(v)>> >>)
\* mutant: the shifts of a[7] and a[6] exchanged
u64_to_u8_le_shifts(v, a) ==
  Stores(Begin(a), << <<7, AsU8(Shr(v, 48, FALSE))>>, <<6, AsU8(Shr(v, 56, FALSE))>>,
                      <<5, AsU8(Shr(v, 40, FALSE))>>, <<4, AsU8(Shr(v, 32, FALSE))>>,
                      <<3, AsU8(Shr(v, 24, FALSE))>>, <<2, AsU8(Shr(v, 16, FALSE))>>,
                      <<1, AsU8(Shr(v, 8, FALSE))>>, <<0, AsU8(v)>> >>)
u64_to_u8_le(v, a) ==
  Stores(Begin(a), << <<7, AsU8(Shr(v, 56, FALSE))>>, <<6, AsU8(Shr(v, 48, FALSE))>>,
                      <<5, AsU8(Shr(v, 40, FALSE))>>, <<4, AsU8(Shr(v, 32, FALSE))>>,
                      <<3, AsU8(Shr(v, 24, FALSE))>>, <<2, AsU8(Shr(v, 16, FALSE))>>,
                      <<1, AsU8(Shr(v, 8, FALSE))>>, <<0, AsU8(v)>> >>)

bool_from_u8_be(i) == IF ~InBounds(i, {0}) THEN Fault ELSE Ret(At(i, 0) > 0)
bool_from_u8_le(i) == IF ~InBounds(i, {0}) THEN Fault ELSE Ret(At(i, 0) > 0)
bool_to_u8_be(v, a) == Stores(Begin(a), << <<0, IF v THEN 1 ELSE 0>> >>)
bool_to_u8_le(v, a) == Stores(Begin(a), << <<0, IF v THEN 1 ELSE 0>> >>)

f32_from_u8_be(i) ==
  LET r == u32_from_u8_be(i) IN IF r.ok THEN Ret(transmute(r.v)) ELSE Fault
f32_from_u8_le(i) ==
  LET r == u32_from_u8_le(i) IN IF r.ok THEN Ret(transmute(r.v)) ELSE Fault
\* mutant: the little-endian writer called
f32_to_u8_be_wrong_order(v, a) == u32_to_u8_le(transmute(v), a)
f32_to_u8_be(v, a) == u32_to_u8_be(transmute(v), a)
f32_to_u8_le(v, a) == u32_to_u8_le(transmute(v), a)

f64_from_u8_be(i) ==
  LET r == u64_from_u8_be(i) IN IF r.ok THEN Ret(transmute(r.v)) ELSE Fault
f64_from_u8_le(i) ==
  LET r == u64_from_u8_le(i) IN IF r.ok THEN Ret(transmute(r.v)) ELSE Fault
f64_to_u8_be(v, a) == u64_to_u8_be(transmute(v), a)
f64_to_u8_le(v, a) == u64_to_u8_le(transmute(v), a)

\* ------------------------------------------------------------------------
\* Static dispatch on the type parameter (trait Readable / Writeable)
\* ------------------------------------------------------------------------

from_u8_be(T, i) ==
  CASE T = "i8" -> i8_from_u8_be(i)    [] T = "u8" -> u8_from_u8_be(i)
    [] T = "i16" -> i16_from_u8_be(i)  [] T = "u16" -> u16_from_u8_be(i)
    [] T = "i32" -> i32_from_u8_be(i)  [] T = "u32" -> u32_from_u8_be(i)
    [] T = "i64" -> i64_from_u8_be(i)  [] T = "u64" -> u64_from_u8_be(i)
    [] T = "bool" -> bool_from_u8_be(i)
    [] T = "f32" -> f32_from_u8_be(i)  [] T = "f64" -> f64_from_u8_be(i)

from_u8_le(T, i) ==
  CASE T = "i8" -> i8_from_u8_le(i)    [] T = "u8" -> u8_from_u8_le(i)
    [] T = "i16" -> i16_from_u8_le(i)  [] T = "u16" -> u16_from_u8_le(i)
    [] T = "i32" -> i32_from_u8_le(i)  [] T = "u32" -> u32_from_u8_le(i)
    [] T = "i64" -> i64_from_u8_le(i)  [] T = "u64" -> u64_from_u8_le(i)
    [] T = "bool" -> bool_from_u8_le(i)
    [] T = "f32" -> f32_from_u8_le(i)  [] T = "f64" -> f64_from_u8_le(i)

to_u8_be(T, v, a) ==
  CASE T = "i8" -> i8_to_u8_be(v, a)    [] T = "u8" -> u8_to_u8_be(v, a)
    [] T = "i16" -> i16_to_u8_be(v, a)  [] T = "u16" -> u16_to_u8_be(v, a)
    [] T = "i32" -> i32_to_u8_be(v, a)  [] T = "u32" -> u32_to_u8_be(v, a)
    [] T = "i64" -> i64_to_u8_be(v, a)  [] T = "u64" -> u64_to_u8_be(v, a)
    [] T = "bool" -> bool_to_u8_be(v, a)
    [] T = "f32" -> f32_to_u8_be(v, a)  [] T = "f64" -> f64_to_u8_be(v, a)

to_u8_le(T, v, a) ==
  CASE T = "i8" -> i8_to_u8_le(v, a)    [] T = "u8" -> u8_to_u8_le(v, a)
    [] T = "i16" -> i16_to_u8_le(v, a)  [] T = "u16" -> u16_to_u8_le(v, a)
    [] T = "i32" -> i32_to_u8_le(v, a)  [] T = "u32" -> u32_to_u8_le(v, a)
    [] T = "i64" -> i64_to_u8_le(v, a)  [] T = "u64" -> u64_to_u8_le(v, a)
    [] T = "bool" -> bool_to_u8_le(v, a)
    [] T = "f32" -> f32_to_u8_le(v, a)  [] T = "f64" -> f64_to_u8_le(v, a)

\* ------------------------------------------------------------------------
\* impl Readable / Writeable for Vec<T>
\* ------------------------------------------------------------------------

\* &a[lo..hi]; panics unless lo <= hi <= a.len()
SliceOk(a, lo, hi) == lo <= hi /\ hi <= Len(a)
Slice(a, lo, hi) == SubSeq(a, lo + 1, hi)

\* the slice a with a[lo..lo+len(part)] replaced by part
Splice(a, lo, part) ==
  [p \in 1..Len(a) |-> IF p > lo /\ p <= lo + Len(part) THEN part[p - lo] ELSE a[p]]

Vec_from_u8_be(T, input) ==
  LET t_size == size_of(T)
      n == Len(input) \div t_size
      elem(i) == from_u8_be(T, Slice(input, i * t_size, (i + 1) * t_size))
  IN  IF \A i \in 0..(n - 1) : SliceOk(input, i * t_size, (i + 1) * t_size) /\ elem(i).ok
      THEN Ret([k \in 1..n |-> elem(k - 1).v])
      ELSE Fault

\* mutant: the number of slots rounded up
Vec_from_u8_le_round_up(T, input) ==
  LET t_size == size_of(T)
      n == (Len(input) + t_size - 1) \div t_size
      elem(i) == from_u8_le(T, Slice(input, i * t_size, (i + 1) * t_size))
  IN  IF \A i \in 0..(n - 1) : SliceOk(input, i * t_size, (i + 1) * t_size) /\ elem(i).ok
      THEN Ret([k \in 1..n |-> elem(k - 1).v])
      ELSE Fault

Vec_from_u8_le(T, input) ==
  LET t_size == size_of(T)
      n == Len(input) \div t_size
      elem(i) == from_u8_le(T, Slice(input, i * t_size, (i + 1) * t_size))
  IN  IF \A i \in 0..(n - 1) : SliceOk(input, i * t_size, (i + 1) * t_size) /\ elem(i).ok
      THEN Ret([k \in 1..n |-> elem(k - 1).v])
      ELSE Fault

\* the loop over v.iter().enumerate(), from element i on
\* mutant: slot i starts at byte i
RECURSIVE Vec_to_u8_be_from_stride(_, _, _, _)
Vec_to_u8_be_from_stride(T, v, s, i) ==
  LET t_size == size_of(T)
      lo == i
      hi == i + t_size
  IN  IF ~s.ok \/ i >= Len(v) THEN s
      ELSE IF ~SliceOk(s.mem, lo, hi) THEN [ok |-> FALSE, mem |-> s.mem]
      ELSE LET r == to_u8_be(T, v[i + 1], Slice(s.mem, lo, hi))
           IN  Vec_to_u8_be_from_stride(T, v, [ok |-> r.ok, mem |-> Splice(s.mem, lo, r.mem)], i + 1)

RECURSIVE Vec_to_u8_be_from(_, _, _, _)
Vec_to_u8_be_from(T, v, s, i) ==
  LET t_size == size_of(T)
      lo == i * t_size
      hi == (i + 1) * t_size
  IN  IF ~s.ok \/ i >= Len(v) THEN s
      ELSE IF ~SliceOk(s.mem, lo, hi) THEN [ok |-> FALSE, mem |-> s.mem]
      ELSE LET r == to_u8_be(T, v[i + 1], Slice(s.mem, lo, hi))
           IN  Vec_to_u8_be_from(T, v, [ok |-> r.ok, mem |-> Splice(s.mem, lo, r.mem)], i + 1)

Vec_to_u8_be(T, v, buffer) == Vec_to_u8_be_from(T, v, Begin(buffer), 0)

RECURSIVE Vec_to_u8_le_from(_, _, _, _)
Vec_to_u8_le_from(T, v, s, i) ==
  LET t_size == size_of(T)
      lo == i * t_size
      hi == (i + 1) * t_size
  IN  IF ~s.ok \/ i >= Len(v) THEN s
      ELSE IF ~SliceOk(s.mem, lo, hi) THEN [ok |-> FALSE, mem |-> s.mem]
      ELSE LET r == to_u8_le(T, v[i + 1], Slice(s.mem, lo, hi))
           IN  Vec_to_u8_le_from(T, v, [ok |-> r.ok, mem |-> Splice(s.mem, lo, r.mem)], i + 1)

Vec_to_u8_le(T, v, buffer) == Vec_to_u8_le_from(T, v, Begin(buffer), 0)

\* ------------------------------------------------------------------------
\* Public entry points.  A type parameter is [elem, vec]: the scalar type
\* elem itself, or Vec<elem>.
\* ------------------------------------------------------------------------

TypeParams == [elem : Types, vec : BOOLEAN]

write_be(Ty, v, buffer) ==
  IF Ty.vec THEN Vec_to_u8_be(Ty.elem, v, buffer) ELSE to_u8_be(Ty.elem, v, buffer)

read_be(Ty, buffer) ==
  IF Ty.vec THEN Vec_from_u8_be(Ty.elem, buffer) ELSE from_u8_be(Ty.elem, buffer)

write_le(Ty, v, buffer) ==
  IF Ty.vec THEN Vec_to_u8_le(Ty.elem, v, buffer) ELSE to_u8_le(Ty.elem, v, buffer)

read_le(Ty, buffer) ==
  IF Ty.vec THEN Vec_from_u8_le(Ty.elem, buffer) ELSE from_u8_le(Ty.elem, buffer)

\* ------------------------------------------------------------------------
\* Input sets
\* ------------------------------------------------------------------------

\* windows of up to MaxDense bytes: every combination of ByteVals
DenseWindows == UNION { [1..L -> ByteVals] : L \in 0..MaxDense }

\* longer windows: 0x11 0x12 0x13 ..., 0xF1 0xF2 0xF3 ..., 0xFF 0xFF 0xFF ...
LongWindows ==
  { [p \in 1..L |-> IF base = 255 THEN 255 ELSE base + p] :
      base \in PatternBases \cup {255}, L \in (MaxDense + 1)..MaxWin }

Windows == DenseWindows \cup LongWindows

FreshWindow(L) == [p \in 1..L |-> Fill]

\* scalar values a session starts with: every bit pattern Windows offers
ScalarValues(T) ==
  IF T = "bool" THEN BOOLEAN ELSE { w \in Windows : Len(w) = size_of(T) }

\* elements of the Vecs a session starts with: 0x..1211 and 0x..F2F1
ElemVals(T) ==
  IF T = "bool" THEN BOOLEAN
  ELSE { [k \in 1..size_of(T) |-> base + k] : base \in PatternBases }

VecValues(T) == UNION { [1..n -> ElemVals(T)] : n \in 0..MaxElems }

\* ------------------------------------------------------------------------
\* Sessions: a caller owning one buffer makes calls one after the other
\* ------------------------------------------------------------------------

VARIABLES
  ty,        \* type parameter of the session's calls
  buf,       \* the caller's byte buffer
  val,       \* the value the caller holds: [ok, v]
  calls,     \* the calls made: [fn, ok, win, out, v]
  panicked,  \* a call panicked: the session is over
  shadow,    \* framing session: the bytes the writes made so far are to leave
  nwrites    \* framing session: number of writes made

vars == <<ty, buf, val, calls, panicked, shadow, nwrites>>

NoVal == [ok |-> FALSE, v |-> <<>>]

\* a session that starts from bytes
InitDecode ==
  /\ ty \in TypeParams
  /\ buf \in Windows
  /\ val = NoVal
  /\ calls = <<>>
  /\ panicked = FALSE
  /\ shadow = <<>>
  /\ nwrites = 0

\* a session that starts from a value and an output buffer
InitEncode ==
  /\ ty \in TypeParams
  /\ \E v \in (IF ty.vec THEN VecValues(ty.elem) ELSE ScalarValues(ty.elem)) :
       /\ val = Ret(v)
       /\ \E L \in 0..((IF ty.vec THEN Len(v) * size_of(ty.elem) ELSE size_of(ty.elem)) + 1) :
            buf = FreshWindow(L)
  /\ calls = <<>>
  /\ panicked = FALSE
  /\ shadow = <<>>
  /\ nwrites = 0

Init == InitDecode \/ InitEncode

CanCall == ~panicked /\ Len(calls) < MaxCalls

\* a call of a read function: the window read and the outcome
ReadCall(f, r) == [fn |-> f, ok |-> r.ok, win |-> buf, out |-> buf, v |-> r.v]

\* a call of a write function: the window before and after, and the value
WriteCall(f, a, r) == [fn |-> f, ok |-> r.ok, win |-> a, out |-> r.mem, v |-> val.v]

ReadBe ==
  /\ CanCall
  /\ LET r == read_be(ty, buf)
     IN  /\ val' = r
         /\ calls' = Append(calls, ReadCall("read_be", r))
         /\ panicked' = ~r.ok
  /\ UNCHANGED <<ty, buf, shadow, nwrites>>

ReadLe ==
  /\ CanCall
  /\ LET r == read_le(ty, buf)
     IN  /\ val' = r
         /\ calls' = Append(calls, ReadCall("read_le", r))
         /\ panicked' = ~r.ok
  /\ UNCHANGED <<ty, buf, shadow, nwrites>>

\* the output window is a fresh one of the buffer's length
WriteBe ==
  /\ CanCall
  /\ val.ok
  /\ LET a == FreshWindow(Len(buf))
         r == write_be(ty, val.v, a)
     IN  /\ buf' = r.mem
         /\ calls' = Append(calls, WriteCall("write_be", a, r))
         /\ panicked' = ~r.ok
  /\ UNCHANGED <<ty, val, shadow, nwrites>>

WriteLe ==
  /\ CanCall
  /\ val.ok
  /\ LET a == FreshWindow(Len(buf))
         r == write_le(ty, val.v, a)
     IN  /\ buf' = r.mem
         /\ calls' = Append(calls, WriteCall("write_le", a, r))
         /\ panicked' = ~r.ok
  /\ UNCHANGED <<ty, val, shadow, nwrites>>

Next == ReadBe \/ ReadLe \/ WriteBe \/ WriteLe

Spec == Init /\ [][Next]_vars

\* ------------------------------------------------------------------------
\* Framing sessions: writes into sub-windows &mut buf[off..] of one buffer
\* ------------------------------------------------------------------------

\* the value of the n-th write: limbs 16n+1, 16n+2, ... (second element
\* of a Vec: 128+16n+1, ...)
FrameScalar(T, base) ==
  IF T = "bool" THEN TRUE ELSE [k \in 1..size_of(T) |-> base + k]

FrameValue(Ty, n) ==
  IF Ty.vec THEN <<FrameScalar(Ty.elem, 16 * n), FrameScalar(Ty.elem, 128 + 16 * n)>>
  ELSE FrameScalar(Ty.elem, 16 * n)

\* the bytes of a scalar, most-significant first / least-significant first
EncodingBe(T, v) ==
  IF T = "bool" THEN <<IF v THEN 1 ELSE 0>>
  ELSE [i \in 1..size_of(T) |-> v[size_of(T) + 1 - i]]

EncodingLe(T, v) ==
  IF T = "bool" THEN <<IF v THEN 1 ELSE 0>>
  ELSE [i \in 1..size_of(T) |-> v[i]]

RECURSIVE Concat(_)
Concat(ss) == IF ss = <<>> THEN <<>> ELSE ss[1] \o Concat(Tail(ss))

Encoding(Ty, order, v) ==
  LET enc(x) == IF order = "be" THEN EncodingBe(Ty.elem, x) ELSE EncodingLe(Ty.elem, x)
  IN  IF Ty.vec THEN Concat([k \in 1..Len(v) |-> enc(v[k])]) ELSE enc(v)

InitFrame ==
  /\ ty \in TypeParams
  /\ buf = FreshWindow(BufLen)
  /\ val = NoVal
  /\ calls = <<>>
  /\ panicked = FALSE
  /\ shadow = buf
  /\ nwrites = 0

WriteBeAt(off) ==
  /\ ~panicked
  /\ nwrites < MaxWrites
  /\ LET v == FrameValue(ty, nwrites + 1)
         r == write_be(ty, v, Slice(buf, off, Len(buf)))
     IN  /\ buf' = Splice(buf, off, r.mem)
         /\ panicked' = ~r.ok
         /\ shadow' = IF r.ok THEN Splice(shadow, off, Encoding(ty, "be", v)) ELSE shadow
  /\ nwrites' = nwrites + 1
  /\ UNCHANGED <<ty, val, calls>>

WriteLeAt(off) ==
  /\ ~panicked
  /\ nwrites < MaxWrites
  /\ LET v == FrameValue(ty, nwrites + 1)
         r == write_le(ty, v, Slice(buf, off, Len(buf)))
     IN  /\ buf' = Splice(buf, off, r.mem)
         /\ panicked' = ~r.ok
         /\ shadow' = IF r.ok THEN Splice(shadow, off, Encoding(ty, "le", v)) ELSE shadow
  /\ nwrites' = nwrites + 1
  /\ UNCHANGED <<ty, val, calls>>

NextFrame == \E off \in 0..BufLen : WriteBeAt(off) \/ WriteLeAt(off)

SpecFrame == InitFrame /\ [][NextFrame]_vars

\* ------------------------------------------------------------------------
\* Vocabulary of the properties
\* ------------------------------------------------------------------------

Reads == {"read_be", "read_le"}
Writes == {"write_be", "write_le"}
BeFns == {"read_be", "write_be"}

SameOrder(f, g) == (f \in BeFns) = (g \in BeFns)

Signed(T) == T \in {"i8", "i16", "i32", "i64"}

W == size_of(ty.elem)

\* pairs of consecutive calls
Pairs == { i \in 1..Len(calls) : i + 1 <= Len(calls) }

\* the integer a limb sequence stands for (widths that fit the checker's integers)
RECURSIVE Unsigned(_)
Unsigned(x) == IF x = <<>> THEN 0 ELSE x[1] + 256 * Unsigned(Tail(x))

IntOf(T, x) ==
  Unsigned(x) - (IF Signed(T) /\ x[Len(x)] >= 128 THEN 256 ^ Len(x) ELSE 0)

\* sum of b[i] * 2^(8*(w-1-i)) / of b[i] * 2^(8*i), i in 0..w-1
RECURSIVE SumBe(_, _)
SumBe(b, w) == IF w = 0 THEN 0 ELSE 256 * SumBe(b, w - 1) + b[w]

RECURSIVE SumLe(_, _)
SumLe(b, w) == IF w = 0 THEN 0 ELSE SumLe(b, w - 1) + b[w] * 256 ^ (w - 1)

\* a sum taken as-is for unsigned T, as two's complement for signed T
Reinterpret(T, sum) ==
  IF Signed(T) /\ sum >= 2 ^ (8 * size_of(T) - 1) THEN sum - 2 ^ (8 * size_of(T)) ELSE sum

Reverse(b) == [i \in 1..Len(b) |-> b[Len(b) + 1 - i]]

Prefix(b, n) == SubSeq(b, 1, n)

\* ------------------------------------------------------------------------
\* C1
\* ------------------------------------------------------------------------

\* the limb of weight 256^(k-1) of the value read is the byte the sum
\* gives that weight: b[w-k] big-endian, b[k-1] little-endian
DigitsOf(c) ==
  \A k \in 1..W : c.v[k] = (IF c.fn = "read_be" THEN c.win[W + 1 - k] ELSE c.win[k])

NumericOf(c) ==
  W <= 2 =>
    IntOf(ty.elem, c.v)
      = Reinterpret(ty.elem, IF c.fn = "read_be" THEN SumBe(c.win, W) ELSE SumLe(c.win, W))

PrefixOnly(c) ==
  LET p == Prefix(c.win, W)
  IN  (IF c.fn = "read_be" THEN from_u8_be(ty.elem, p) ELSE from_u8_le(ty.elem, p)) = Ret(c.v)

\* C1: an integer read from a window of at least w bytes returns the
\* big-endian (little-endian) sum of the first w bytes, reinterpreted as
\* two's complement for a signed type, and depends on those w bytes only.
C1_ReadIsPositionalSum ==
  \A n \in 1..Len(calls) :
    LET c == calls[n]
    IN  (~ty.vec /\ ty.elem \in IntTypes /\ c.fn \in Reads /\ Len(c.win) >= W)
          => c.ok /\ DigitsOf(c) /\ NumericOf(c) /\ PrefixOnly(c)

\* a negative i32 was read big-endian from a window with excess bytes
C1_Witness ==
  /\ ty = [elem |-> "i32", vec |-> FALSE]
  /\ Len(calls) >= 1
  /\ calls[1].fn = "read_be"
  /\ Len(calls[1].win) > 4
  /\ calls[1].ok
  /\ calls[1].v = <<244, 243, 242, 241>>

\* ------------------------------------------------------------------------
\* C2
\* ------------------------------------------------------------------------

\* C2: a scalar written into a window of at least width(T) bytes and read
\* back from that window in the same byte order is the scalar written.
C2_ScalarRoundTrip ==
  \A i \in Pairs :
    (~ty.vec /\ calls[i].fn \in Writes /\ calls[i + 1].fn \in Reads
       /\ SameOrder(calls[i].fn, calls[i + 1].fn) /\ Len(calls[i].win) >= W)
      => calls[i].ok /\ calls[i + 1].ok /\ calls[i + 1].v = calls[i].v

\* a negative i16 went through write_le and read_le
C2_Witness ==
  /\ ty = [elem |-> "i16", vec |-> FALSE]
  /\ Len(calls) >= 2
  /\ calls[1].fn = "write_le"
  /\ calls[2].fn = "read_le"
  /\ calls[1].v = <<1, 255>>
  /\ calls[2].ok

\* ------------------------------------------------------------------------
\* C3
\* ------------------------------------------------------------------------

\* C3: the w bytes write_le produces are the w bytes write_be produces for
\* the same scalar, reversed; for width 1 the two are the same bytes.
C3_LeIsBeReversed ==
  \A i, j \in 1..Len(calls) :
    (~ty.vec /\ calls[i].fn = "write_be" /\ calls[j].fn = "write_le"
       /\ calls[i].ok /\ calls[j].ok /\ calls[i].v = calls[j].v)
      => /\ Prefix(calls[j].out, W) = Reverse(Prefix(calls[i].out, W))
         /\ W = 1 => calls[j].out = calls[i].out

\* a u64 with two different bytes was written in both orders
C3_Witness ==
  /\ ty = [elem |-> "u64", vec |-> FALSE]
  /\ Len(calls) >= 2
  /\ calls[1].fn = "write_be"
  /\ calls[2].fn = "write_le"
  /\ calls[1].ok /\ calls[2].ok
  /\ calls[1].v = <<17, 18, 19, 20, 21, 22, 23, 24>>

\* ------------------------------------------------------------------------
\* C4
\* ------------------------------------------------------------------------

ElemOf(c, i) ==
  LET s == SubSeq(c.win, i * W + 1, (i + 1) * W)
  IN  IF c.fn = "read_be" THEN from_u8_be(ty.elem, s) ELSE from_u8_le(ty.elem, s)

Truncated(c) ==
  LET t == Prefix(c.win, (Len(c.win) \div W) * W)
  IN  (IF c.fn = "read_be" THEN Vec_from_u8_be(ty.elem, t) ELSE Vec_from_u8_le(ty.elem, t))
        = Ret(c.v)

\* C4: a Vec read from a window of any length L returns, without a panic,
\* floor(L / w) elements, element i being the scalar read of bytes
\* [i*w, (i+1)*w); the trailing L mod w bytes have no influence.
C4_VecReadTruncates ==
  \A n \in 1..Len(calls) :
    LET c == calls[n]
    IN  (ty.vec /\ c.fn \in Reads)
          => /\ c.ok
             /\ Len(c.v) = Len(c.win) \div W
             /\ \A i \in 0..(Len(c.v) - 1) : ElemOf(c, i) = Ret(c.v[i + 1])
             /\ Truncated(c)

\* a Vec<u32> was read from a window of two slots and a trailing byte
C4_Witness ==
  /\ ty = [elem |-> "u32", vec |-> TRUE]
  /\ Len(calls) >= 1
  /\ calls[1].fn = "read_le"
  /\ Len(calls[1].win) = 9
  /\ calls[1].ok
  /\ Len(calls[1].v) = 2
  /\ calls[1].v[1] # calls[1].v[2]

\* ------------------------------------------------------------------------
\* C5
\* ------------------------------------------------------------------------

\* C5: a Vec of n elements written into a window of exactly n*width(T)
\* bytes and read back in the same byte order is the Vec written.
C5_VecRoundTrip ==
  \A i \in Pairs :
    (ty.vec /\ calls[i].fn \in Writes /\ calls[i + 1].fn \in Reads
       /\ SameOrder(calls[i].fn, calls[i + 1].fn)
       /\ Len(calls[i].win) = Len(calls[i].v) * W)
      => calls[i].ok /\ calls[i + 1].ok /\ calls[i + 1].v = calls[i].v

\* three different i16 elements went through write_be and read_be
C5_Witness ==
  /\ ty = [elem |-> "i16", vec |-> TRUE]
  /\ Len(calls) >= 2
  /\ calls[1].fn = "write_be"
  /\ calls[2].fn = "read_be"
  /\ Len(calls[1].v) = 3
  /\ calls[1].v[1] # calls[1].v[2]
  /\ Len(calls[1].win) = 6
  /\ calls[2].ok

\* ------------------------------------------------------------------------
\* C6
\* ------------------------------------------------------------------------

\* C6: a scalar read or write on a window shorter than width(T) panics.
C6_ShortWindowPanics ==
  \A n \in 1..Len(calls) :
    (~ty.vec /\ Len(calls[n].win) < W) => ~calls[n].ok /\ panicked

\* a u16 read found one byte, and panicked
C6_Witness ==
  /\ ty = [elem |-> "u16", vec |-> FALSE]
  /\ Len(calls) = 1
  /\ calls[1].fn = "read_be"
  /\ Len(calls[1].win) = 1
  /\ panicked

\* ------------------------------------------------------------------------
\* C7
\* ------------------------------------------------------------------------

\* C7: a scalar write on a window shorter than width(T) leaves every byte
\* of the window as it was.
C7_NoByteWrittenOnFault ==
  \A n \in 1..Len(calls) :
    (~ty.vec /\ calls[n].fn \in Writes /\ Len(calls[n].win) < W)
      => calls[n].out = calls[n].win

\* ------------------------------------------------------------------------
\* C8
\* ------------------------------------------------------------------------

\* C8: a Vec write on a window shorter than n*width(T) panics and leaves
\* every byte of the window as it was.
C8_NoPartialVecWrite ==
  \A n \in 1..Len(calls) :
    (ty.vec /\ calls[n].fn \in Writes /\ Len(calls[n].win) < Len(calls[n].v) * W)
      => ~calls[n].ok /\ calls[n].out = calls[n].win

\* ------------------------------------------------------------------------
\* C9
\* ------------------------------------------------------------------------

\* C9: after successful writes into sub-windows of one buffer, a byte no
\* write covered has its initial value and a covered byte has the value
\* the last write covering it gave it.
C9_WritesAreFramed ==
  ~panicked => buf = shadow

\* two writes overlapped, in part, and left bytes of the buffer untouched
C9_Witness ==
  /\ ~panicked
  /\ nwrites = 2
  /\ ty = [elem |-> "u32", vec |-> FALSE]
  /\ buf = <<Fill, 20, 19, 36, 35, 34, 33, Fill, Fill>>

\* ------------------------------------------------------------------------
\* C10
\* ------------------------------------------------------------------------

Aligned(c) == IF ty.vec THEN Len(c.win) % W = 0 ELSE Len(c.win) = W

DecodeThenEncode(i) ==
  /\ calls[i].fn \in Reads
  /\ calls[i + 1].fn \in Writes
  /\ SameOrder(calls[i].fn, calls[i + 1].fn)
  /\ Aligned(calls[i])

\* the bytes a bool session writes back: every non-zero byte is 1
Normalised(b) == [p \in 1..Len(b) |-> IF b[p] > 0 THEN 1 ELSE 0]

\* C10 as stated: decoding a window whose length is a multiple of width(T)
\* and encoding the result in the same byte order reproduces the bytes,
\* for every scalar type.
C10_Original ==
  \A i \in Pairs :
    DecodeThenEncode(i)
      => calls[i].ok /\ calls[i + 1].ok /\ calls[i + 1].out = calls[i].win

\* C10 amended: it reproduces the bytes for the integer and float types;
\* for bool it writes 1 for every non-zero byte and 0 for every zero byte.
C10_DecodeEncode ==
  \A i \in Pairs :
    DecodeThenEncode(i)
      => /\ calls[i].ok /\ calls[i + 1].ok
         /\ calls[i + 1].out
              = (IF ty.elem = "bool" THEN Normalised(calls[i].win) ELSE calls[i].win)

\* a Vec<f32> of two different elements was read and written back
C10_Witness ==
  /\ ty = [elem |-> "f32", vec |-> TRUE]
  /\ Len(calls) >= 2
  /\ calls[1].fn = "read_be"
  /\ calls[2].fn = "write_be"
  /\ calls[1].win = <<17, 18, 19, 20, 21, 22, 23, 24>>
  /\ calls[2].ok

====
